---- MODULE Spec2Model ----
(***************************************************************************)
(* A state-machine model of the Wan (Alibaba DashScope) video-generation   *)
(* job of image.pollinations.ai: createAndReturnVideo dispatches to        *)
(* callWanAPI, which prepares the parameters, submits a task, polls it at  *)
(* a fixed cadence and downloads the artifact.  One action is the code     *)
(* that runs between two suspension points (await) of the job.             *)
(***************************************************************************)
EXTENDS Integers, Sequences, FiniteSets, TLC

VARIABLES
    req,          \* the request: safeParams (model, duration, audio, image)
    apiKey,       \* process.env.DASHSCOPE_API_KEY: <<>> when not configured
    sinkFailAt,   \* the call of progress.updateBar that throws, 0 for none
    pc,           \* the suspension point the job is at
    videoParams,  \* prepareVideoParameters' return value, <<>> before it ran
    requestBody,  \* the DashScope request body, <<>> before it is built
    taskId,       \* the task handle createDashScopeTask returned
    attempt,      \* pollWanTask's loop variable (0 outside the loop)
    pollResult,   \* the last return value of pollTaskOnce
    videoUrl,     \* the artifact locator handed to downloadVideo
    bar,          \* the percentages passed to progress.updateBar, in order
    adapter,      \* the provider adapter createAndReturnVideo called
    outcome,      \* what the caller received: nothing yet, a result, an error
    nImage,       \* source-image retrievals issued
    fetchedImage, \* the URL handed to downloadImageAsBase64, <<>> for none
    lastImage,    \* what downloadImageAsBase64 settled with
    nSubmit,      \* submission POSTs issued
    nPoll,        \* status checks (poll GETs) issued
    nSleep,       \* sleeps started by pollWanTask
    sleptMs,      \* the sum of the delays passed to sleep
    nDownload,    \* artifact downloads issued
    nSettled,     \* network calls of the Wan job that have settled
    lastSubmit,   \* the response the submission POST received
    lastResp,     \* the response the last status check received
    lastDownload, \* the response the artifact download received
    sawTerminal,  \* history: some status check produced a terminal outcome
    saw5xx,       \* history: some status check received a 5xx response
    onlyPending,  \* history: every status check so far was non-terminal
    cache,        \* memoize: the Map from cache key to cached result
    createdBy,    \* history: the (prompt, seed) that created each cache entry
    pending,      \* pimpPrompt: the calls awaiting fn(prompt, seed)
    lastCall,     \* pimpPrompt: the call that resolved last and its value
    detectRequest,\* fetchDetection: the prompt q and the host it is sent to
    dStep,        \* fetchDetection: the await it is suspended at
    signalAborted,\* detectLanguage: controller.signal.aborted
    timerFired,   \* detectLanguage: the setTimeout callback has run
    detectPromise,\* detectLanguage: detectPromise's value, <<>> while pending
    raceResult,   \* detectLanguage: the value its promise resolved with
    firstEvent,   \* history: which of detection and timer happened first
    client,       \* content safety: TRUE when the client is configured
    safetyCall,   \* content safety: the function called and its input
    safetyPc,     \* content safety: "idle", "wait" (at the await) or "done"
    safetyResp,   \* content safety: what the awaited post settled with
    safetyOutcome,\* content safety: what the caller received
    scrollY,      \* useHeaderVisibility: window.scrollY
    threshold,    \* useHeaderVisibility: the threshold of the last render
    showHeader,   \* useHeaderVisibility: the showHeader state
    listener      \* useHeaderVisibility: the threshold the attached scroll
                  \* listener closed over, <<>> while none is attached

\* the variables of the video job
jobVars == <<req, apiKey, sinkFailAt, pc, videoParams, requestBody, taskId,
             attempt, pollResult, videoUrl, bar, adapter, outcome, nImage,
             fetchedImage, lastImage, nSubmit, nPoll, nSleep, sleptMs,
             nDownload, nSettled, lastSubmit, lastResp, lastDownload,
             sawTerminal, saw5xx, onlyPending>>

\* the variables of the other modules of the repository
headerVars == <<scrollY, threshold, showHeader, listener>>
memoVars == <<cache, createdBy, pending, lastCall>>
detectVars == <<detectRequest, dStep, signalAborted, timerFired,
                detectPromise, raceResult, firstEvent>>
safetyVars == <<client, safetyCall, safetyPc, safetyResp, safetyOutcome>>
otherVars == <<headerVars, memoVars, detectVars, safetyVars>>

vars == <<jobVars, otherVars>>

-----------------------------------------------------------------------------
(* Program constants *)

MIN_DURATION_SECONDS == 2
MAX_DURATION_SECONDS == 15
DEFAULT_DURATION_SECONDS == 5
POLL_MAX_ATTEMPTS == 60
POLL_DELAY_MS == 5000

WAN_T2V_MODEL == "wan2.6-t2v"
WAN_I2V_MODEL == "wan2.6-i2v-flash"
DEFAULT_RESOLUTION == "720P"

(* Bounds of the model *)

\* requested durations lie within DurationSpan of 0 and of the range's ends
DurationSpan == 2
\* a content-safety response analyses at most MaxAnalyses categories
MaxAnalyses == 2
\* the severities a response reports range over 0 .. MaxSeverity
MaxSeverity == 6
\* pimpPrompt's seeds range over -MaxSeed .. MaxSeed
MaxSeed == 1
\* at most MaxPending calls of pimpPrompt are in flight
MaxPending == 2
\* window.scrollY ranges over 0 .. MaxScrollY
MaxScrollY == 30
\* provider-reported durations range over 0 .. MaxVideoDuration
MaxVideoDuration == 7
\* the progress sink fails at one of its first MaxSinkFailAt calls, or never
MaxSinkFailAt == 8

-----------------------------------------------------------------------------
(* JavaScript values: an optional value is <<>> (undefined) or <<v>> *)

None == <<>>
Some(v) == <<v>>

\* the truthiness of an optional number: undefined and 0 are falsy
TruthyNum(o) == o # None /\ o[1] # 0

\* the truthiness of an optional string: undefined and "" are falsy
TruthyStr(o) == o # None /\ o[1] # ""

Min(a, b) == IF a <= b THEN a ELSE b
Max(a, b) == IF a >= b THEN a ELSE b

\* String.prototype.startsWith
StartsWith(s, p) == Len(s) >= Len(p) /\ SubSeq(s, 1, Len(p)) = p

Lower == "abcdefghijklmnopqrstuvwxyz"
Upper == "ABCDEFGHIJKLMNOPQRSTUVWXYZ"

UpperChar(c) ==
    IF \E i \in 1..Len(Lower) : SubSeq(Lower, i, i) = c
    THEN LET i == CHOOSE i \in 1..Len(Lower) : SubSeq(Lower, i, i) = c
         IN  SubSeq(Upper, i, i)
    ELSE c

\* String.prototype.toUpperCase
RECURSIVE ToUpperCase(_)
ToUpperCase(s) ==
    IF Len(s) = 0 THEN ""
    ELSE UpperChar(SubSeq(s, 1, 1)) \o ToUpperCase(SubSeq(s, 2, Len(s)))

\* new HttpError(message, status), and a plain Error (no status)
HttpError(message, status) == [message |-> message, status |-> Some(status)]
PlainError(message) == [message |-> message, status |-> None]

-----------------------------------------------------------------------------
(* Request normalisation *)

\* calculateVideoResolution of ../utils/videoResolution.ts for a request that
\* carries no width, height or aspect-ratio hint: the default resolution
calculateVideoResolution(safeParams) ==
    [aspectRatio |-> "16:9", resolution |-> DEFAULT_RESOLUTION]

\* const rawDuration = safeParams.duration || DEFAULT_DURATION_SECONDS
rawDuration(duration) ==
    IF TruthyNum(duration) THEN duration[1] ELSE DEFAULT_DURATION_SECONDS

\* Math.max(MIN_DURATION_SECONDS, Math.min(MAX_DURATION_SECONDS, rawDuration))
clampDuration(d) ==
    Max(MIN_DURATION_SECONDS, Min(MAX_DURATION_SECONDS, d))

prepareVideoParameters(safeParams) ==
    [durationSeconds |-> clampDuration(rawDuration(safeParams.duration)),
     resolution      |-> calculateVideoResolution(safeParams).resolution,
     aspectRatio     |-> calculateVideoResolution(safeParams).aspectRatio,
     generateAudio   |-> safeParams.audio # Some(FALSE)]

\* An image parameter is undefined, a string or an array of strings
ImageStr(s) == Some([isArray |-> FALSE, items |-> <<s>>])
ImageArr(a) == Some([isArray |-> TRUE, items |-> a])

\* !image: undefined and the empty string are falsy, every array is truthy
ImageFalsy(image) ==
    image = None \/ (~image[1].isArray /\ image[1].items[1] = "")

\* extractFirstImage taking the last image of a list
extractLastImage(image) ==
    IF ImageFalsy(image) THEN None
    ELSE IF image[1].isArray
         THEN (IF Len(image[1].items) > 0
               THEN Some(image[1].items[Len(image[1].items)]) ELSE None)
         ELSE Some(image[1].items[1])

extractFirstImage(image) ==
    IF ImageFalsy(image) THEN None
    ELSE IF image[1].isArray
         THEN (IF Len(image[1].items) > 0
               THEN Some(image[1].items[1]) ELSE None)
         ELSE Some(image[1].items[1])

\* prepareImageUrl: TRUE when the URL is returned, FALSE when it throws 400
prepareImageUrlAccepts(imageUrl) ==
    \/ StartsWith(imageUrl, "http://")
    \/ StartsWith(imageUrl, "https://")
    \/ StartsWith(imageUrl, "data:")

\* buildDashScopeRequest, for an imageUrl that prepareImageUrl accepts
buildDashScopeRequest(prompt, imageUrl, vp) ==
    [model    |-> IF TruthyStr(imageUrl) THEN WAN_I2V_MODEL ELSE WAN_T2V_MODEL,
     prompt   |-> prompt,
     img_url  |-> IF TruthyStr(imageUrl) THEN imageUrl ELSE None,
     resolution    |-> vp.resolution,
     duration      |-> vp.durationSeconds,
     prompt_extend |-> TRUE,
     audio         |-> vp.generateAudio]

\* usageDuration ignoring the provider-reported duration
usageDurationRequested(vp, actualDuration) == vp.durationSeconds

\* createVideoResult
usageDuration(vp, actualDuration) ==
    IF TruthyNum(actualDuration) THEN actualDuration[1] ELSE vp.durationSeconds
resultDuration(vp, actualDuration) == vp.durationSeconds

createVideoResult(buffer, vp, actualDuration) ==
    [buffer          |-> buffer,
     mimeType        |-> "video/mp4",
     durationSeconds |-> resultDuration(vp, actualDuration),
     actualModel     |-> "wan",
     completionVideoSeconds |-> usageDuration(vp, actualDuration),
     completionAudioSeconds |->
         IF vp.generateAudio THEN usageDuration(vp, actualDuration) ELSE 0]

-----------------------------------------------------------------------------
(* What the provider can answer to one status check (poll GET) *)

\* a response of fetch: kind "http" (a response arrived; body is its JSON
\* document), "badjson" (a 2xx response whose body is no JSON) or "reject"
\* (the request rejected: a network exception)
PollResp(kind, status, ts, url, dur, omsg, msg) ==
    [kind |-> kind, status |-> status, task_status |-> ts, video_url |-> url,
     video_duration |-> dur, output_message |-> omsg, message |-> msg,
     errorText |-> IF status >= 400 THEN "denied" ELSE ""]

GoodVideoUrl == "https://cdn.example/v.mp4"
VideoUrls == {None, Some(""), Some(GoodVideoUrl)}
VideoDurations == {None} \cup {Some(d) : d \in {0, MaxVideoDuration}}

SucceededResponses ==
    {PollResp("http", 200, Some("SUCCEEDED"), url, None, None, None) :
        url \in VideoUrls}
    \cup {PollResp("http", 200, Some("SUCCEEDED"), Some(GoodVideoUrl), dur,
                   None, None) : dur \in VideoDurations}
    \cup {PollResp("http", 200, Some("succeeded"), Some(GoodVideoUrl),
                   Some(MaxVideoDuration), None, None)}

FailedResponses ==
    {PollResp("http", 200, Some("FAILED"), None, None, omsg, msg) :
        omsg \in {None, Some(""), Some("unsafe content")},
        msg \in {None, Some("quota exceeded")}}
    \cup {PollResp("http", 200, Some("Failed"), None, None,
                   Some("unsafe content"), None)}

CanceledResponses ==
    {PollResp("http", 200, Some("CANCELED"), None, None, None, None)}

RunningResponses ==
    {PollResp("http", 200, ts, None, None, None, None) :
        ts \in {Some("RUNNING"), Some("Pending"), None}}
    \cup {PollResp("http", 200, None, None, None, None, Some("Throttling"))}

NotOkResponses ==
    {PollResp("http", st, None, None, None, None, None) :
        st \in {400, 429, 499, 500, 503}}

BrokenResponses ==
    {PollResp("reject", 0, None, None, None, None, None),
     PollResp("badjson", 200, None, None, None, None, None)}

PollResponses ==
    SucceededResponses \cup FailedResponses \cup CanceledResponses
    \cup RunningResponses \cup NotOkResponses \cup BrokenResponses

\* Response.ok
ResponseOk(resp) == resp.status >= 200 /\ resp.status <= 299

-----------------------------------------------------------------------------
(* pollTaskOnce *)

\* FloorTimes07 rounding to the nearest integer (Math.round for Math.floor)
FloorTimes07Rounded(n) == (7 * n + 5) \div 10

\* Math.floor(attempt * 0.7) in IEEE-754 doubles: for every attempt in
\* 0..89 it equals the exact floor(7 * attempt / 10)
FloorTimes07(n) == (7 * n) \div 10

\* progressPercent without the cap of 40
progressPercentUncapped(n) == 50 + FloorTimes07(n)

progressPercent(n) == 50 + Min(40, FloorTimes07(n))

\* the return values of pollTaskOnce; throws # None when it throws instead
Pending == [status |-> "pending", videoUrl |-> None, videoDuration |-> None,
            error |-> None, throws |-> None]
Completed(url, dur) ==
    [status |-> "completed", videoUrl |-> Some(url),
     videoDuration |-> Some(dur), error |-> None, throws |-> None]
Failed(error) ==
    [status |-> "failed", videoUrl |-> None, videoDuration |-> None,
     error |-> Some(error), throws |-> None]
Throws(err) ==
    [status |-> "threw", videoUrl |-> None, videoDuration |-> None,
     error |-> None, throws |-> Some(err)]

\* pollNotOk without the fail-fast branch: every non-ok response is retried
pollNotOkRetriesAll(resp) == Pending

\* pollNotOk with the upper limit of the 4xx test lost: 5xx fails as well
pollNotOkFailsAll(resp) ==
    IF resp.status >= 400
    THEN Failed("DashScope poll failed (" \o ToString(resp.status) \o "): "
                \o resp.errorText)
    ELSE Pending

\* if (!response.ok): fail fast on 4xx, pending otherwise
pollNotOk(resp) ==
    IF resp.status >= 400 /\ resp.status < 500
    THEN Failed("DashScope poll failed (" \o ToString(resp.status) \o "): "
                \o resp.errorText)
    ELSE Pending

\* toUpperCase tabulated over the task statuses the provider answers with
UpperCased ==
    [s \in {r.task_status[1] :
               r \in {q \in PollResponses : q.task_status # None}}
        |-> ToUpperCase(s)]

\* data.output?.task_status?.toUpperCase()
taskStatus(data) ==
    IF data.task_status = None THEN None
    ELSE Some(UpperCased[data.task_status[1]])

\* pollSucceeded without the check for a missing video URL
pollSucceededUnchecked(data) ==
    Completed(IF data.video_url # None THEN data.video_url[1] ELSE "",
              IF TruthyNum(data.video_duration)
              THEN data.video_duration[1] ELSE 0)

\* case "SUCCEEDED"
pollSucceeded(data) ==
    IF ~TruthyStr(data.video_url)
    THEN Throws(HttpError("No video URL in completed response", 500))
    ELSE Completed(data.video_url[1],
                   IF TruthyNum(data.video_duration)
                   THEN data.video_duration[1] ELSE 0)

\* failedMessage preferring the top-level message to output.message
failedMessageTopFirst(data) ==
    IF TruthyStr(data.message) THEN data.message[1]
    ELSE IF TruthyStr(data.output_message) THEN data.output_message[1]
    ELSE "Video generation failed"

\* case "FAILED": data.output?.message || data.message || the default
failedMessage(data) ==
    IF TruthyStr(data.output_message) THEN data.output_message[1]
    ELSE IF TruthyStr(data.message) THEN data.message[1]
    ELSE "Video generation failed"

\* pollSwitch whose default case reports a failure
pollSwitchDefaultFails(data) ==
    CASE taskStatus(data) = Some("SUCCEEDED") -> pollSucceeded(data)
      [] taskStatus(data) = Some("FAILED")    -> Failed(failedMessage(data))
      [] taskStatus(data) = Some("CANCELED")  ->
             Failed("Video generation was canceled")
      [] OTHER -> Failed("Unknown task status")

\* switch (taskStatus)
pollSwitch(data) ==
    CASE taskStatus(data) = Some("SUCCEEDED") -> pollSucceeded(data)
      [] taskStatus(data) = Some("FAILED")    -> Failed(failedMessage(data))
      [] taskStatus(data) = Some("CANCELED")  ->
             Failed("Video generation was canceled")
      [] OTHER -> Pending

\* the fetch of the status rejected: nothing catches it
pollRejected(resp) == Throws(PlainError("fetch failed"))

pollTaskOnce(resp) ==
    IF resp.kind = "reject" THEN pollRejected(resp)
    ELSE IF ~ResponseOk(resp) THEN pollNotOk(resp)
    ELSE IF resp.kind = "badjson"
         THEN Throws(PlainError("Unexpected token in JSON"))
    ELSE pollSwitch(resp)

-----------------------------------------------------------------------------
(* createDashScopeTask and downloadVideo: what the provider can answer *)

SubmitResp(kind, status, code, msg, id) ==
    [kind |-> kind, status |-> status, code |-> code, message |-> msg,
     task_id |-> id, errorText |-> IF status >= 400 THEN "rejected" ELSE ""]

SubmitResponses ==
    {SubmitResp("http", 200, None, None, id) :
        id \in {None, Some(""), Some("task-1")}}
    \cup {SubmitResp("http", 200, Some("InvalidParameter"), msg, None) :
        msg \in {None, Some("bad size")}}
    \cup {SubmitResp("http", st, None, None, None) :
        st \in {400, 401, 429, 500, 503}}
    \cup {SubmitResp("reject", 0, None, None, None),
          SubmitResp("badjson", 200, None, None, None)}

\* createDashScopeTask without the check for a missing task id
createDashScopeTaskNoIdCheck(resp) ==
    IF resp.kind = "reject"
    THEN [taskId |-> None, throws |-> Some(PlainError("fetch failed"))]
    ELSE IF ~ResponseOk(resp)
    THEN [taskId |-> None,
          throws |-> Some(HttpError("DashScope API request failed: "
                                    \o resp.errorText, resp.status))]
    ELSE IF resp.kind = "badjson"
    THEN [taskId |-> None,
          throws |-> Some(PlainError("Unexpected token in JSON"))]
    ELSE IF TruthyStr(resp.code)
    THEN [taskId |-> None,
          throws |-> Some(HttpError("DashScope API error: "
                     \o (IF TruthyStr(resp.message) THEN resp.message[1]
                         ELSE resp.code[1]), 400))]
    ELSE [taskId |-> resp.task_id, throws |-> None]

\* createDashScopeTask after its fetch settled: the task id it returns, or
\* the error it throws
createDashScopeTask(resp) ==
    IF resp.kind = "reject"
    THEN [taskId |-> None, throws |-> Some(PlainError("fetch failed"))]
    ELSE IF ~ResponseOk(resp)
    THEN [taskId |-> None,
          throws |-> Some(HttpError("DashScope API request failed: "
                                    \o resp.errorText, resp.status))]
    ELSE IF resp.kind = "badjson"
    THEN [taskId |-> None,
          throws |-> Some(PlainError("Unexpected token in JSON"))]
    ELSE IF TruthyStr(resp.code)
    THEN [taskId |-> None,
          throws |-> Some(HttpError("DashScope API error: "
                     \o (IF TruthyStr(resp.message) THEN resp.message[1]
                         ELSE resp.code[1]), 400))]
    ELSE IF ~TruthyStr(resp.task_id)
    THEN [taskId |-> None,
          throws |-> Some(HttpError("DashScope API did not return task ID",
                                    500))]
    ELSE [taskId |-> resp.task_id, throws |-> None]

DownloadResponses ==
    {[kind |-> "http", status |-> st,
      body |-> IF st = 200 THEN "mp4-bytes" ELSE ""] : st \in {200, 404, 500}}
    \cup {[kind |-> "reject", status |-> 0, body |-> ""]}

\* downloadVideo without the check of response.ok
downloadVideoUnchecked(resp) ==
    IF resp.kind = "reject"
    THEN [buffer |-> None, throws |-> Some(PlainError("fetch failed"))]
    ELSE [buffer |-> Some(resp.body), throws |-> None]

\* downloadVideo passing the response's status on, as createDashScopeTask does
downloadVideoPassesStatus(resp) ==
    IF resp.kind = "reject"
    THEN [buffer |-> None, throws |-> Some(PlainError("fetch failed"))]
    ELSE IF ~ResponseOk(resp)
    THEN [buffer |-> None,
          throws |-> Some(HttpError("Failed to download video: "
                                    \o ToString(resp.status), resp.status))]
    ELSE [buffer |-> Some(resp.body), throws |-> None]

\* downloadVideo after its fetch settled: the buffer, or the error it throws
downloadVideo(resp) ==
    IF resp.kind = "reject"
    THEN [buffer |-> None, throws |-> Some(PlainError("fetch failed"))]
    ELSE IF ~ResponseOk(resp)
    THEN [buffer |-> None,
          throws |-> Some(HttpError("Failed to download video: "
                                    \o ToString(resp.status), 500))]
    ELSE [buffer |-> Some(resp.body), throws |-> None]

\* the percentages downloadVideo reports before and after its fetch
downloadStartPercent == 90
downloadDonePercent == 95

\* downloadImageAsBase64 of ../utils/imageDownload.ts: the image's bytes in
\* base64 and its MIME type, or an error
ImageResults ==
    {[ok |-> TRUE, base64 |-> "aGVsbG8=", mimeType |-> "image/png"],
     [ok |-> FALSE, base64 |-> "", mimeType |-> ""]}

imageDataUri(r) == "data:" \o r.mimeType \o ";base64," \o r.base64

-----------------------------------------------------------------------------
(* pollWanTask *)

\* loopContinues with the bound off by one: a 61st attempt
loopContinuesOffByOne(n) == n <= POLL_MAX_ATTEMPTS + 1

\* loopContinues stopping one attempt early
loopContinuesOneFewer(n) == n < POLL_MAX_ATTEMPTS

\* for (let attempt = 1; attempt <= POLL_MAX_ATTEMPTS; attempt++)
loopContinues(n) == n <= POLL_MAX_ATTEMPTS

\* after the loop
pollTimeout == HttpError("Video generation timed out after 5 minutes", 504)

\* loopDecision without the check for "failed": the loop sleeps and polls on
loopDecisionIgnoresFailed(pr) ==
    CASE pr.throws # None        -> "throw"
      [] pr.status = "completed" -> "download"
      [] OTHER                   -> "sleep"

\* what the loop body does with pollTaskOnce's return value
loopDecision(pr) ==
    CASE pr.throws # None        -> "throw"
      [] pr.status = "completed" -> "download"
      [] pr.status = "failed"    -> "fail"
      [] OTHER                   -> "sleep"

-----------------------------------------------------------------------------
(* createAndReturnVideo *)

\* adapterFor whose default case falls back to the Wan adapter
adapterForDefaultWan(model) ==
    CASE model = "veo"          -> Some("callVeoAPI")
      [] model = "seedance"     -> Some("callSeedanceAPI")
      [] model = "seedance-pro" -> Some("callSeedanceProAPI")
      [] model = "ltx-2"        -> Some("callLtx2API")
      [] model = "grok-video"   -> Some("callAirforceVideoAPI")
      [] OTHER                  -> Some("callWanAPI")

\* switch (safeParams.model): the adapter called, None for default
adapterFor(model) ==
    CASE model = "veo"          -> Some("callVeoAPI")
      [] model = "seedance"     -> Some("callSeedanceAPI")
      [] model = "seedance-pro" -> Some("callSeedanceProAPI")
      [] model = "wan"          -> Some("callWanAPI")
      [] model = "ltx-2"        -> Some("callLtx2API")
      [] model = "grok-video"   -> Some("callAirforceVideoAPI")
      [] OTHER                  -> None

startPercent == 20
wanStartPercent == 35
submitStartPercent == 45
submitDonePercent == 50

-----------------------------------------------------------------------------
(* The requests a caller can make and the environment of the process *)

Req(model, duration, audio, image) ==
    [model |-> model, prompt |-> "a cat", duration |-> duration,
     audio |-> audio, image |-> image]

\* the requested durations: none, the default, and every value within
\* DurationSpan of 0 and of the two ends of the provider's range
RequestedDurations ==
    {None, Some(DEFAULT_DURATION_SECONDS)} \cup
    {Some(d) : d \in ((0 - DurationSpan)
                         .. (MIN_DURATION_SECONDS + DurationSpan))
                     \cup ((MAX_DURATION_SECONDS - DurationSpan)
                            .. (MAX_DURATION_SECONDS + DurationSpan))}

AudioFlags == {None, Some(TRUE), Some(FALSE)}

Images ==
    {ImageStr(""), ImageStr("https://img.example/a.png"),
     ImageStr("http://img.example/a.png"),
     ImageStr("data:image/png;base64,AA=="),
     ImageStr("ftp://img.example/a.png"), ImageArr(<<>>),
     ImageArr(<<"https://img.example/a.png", "ftp://img.example/b.png">>)}

OtherModels ==
    {"veo", "seedance", "seedance-pro", "ltx-2", "grok-video", "flux"}

Requests ==
    {Req("wan", d, a, None) : d \in RequestedDurations, a \in AudioFlags}
    \cup {Req("wan", None, None, i) : i \in Images}
    \cup {Req(m, None, None, None) : m \in OtherModels}

ApiKeys == {None, Some(""), Some("sk-test")}

NoOutcome == [kind |-> "none", error |-> None, result |-> None]
Raised(err) == [kind |-> "error", error |-> Some(err), result |-> None]
Returned(r) == [kind |-> "result", error |-> None, result |-> Some(r)]

NoPollResult == [status |-> "none", videoUrl |-> None, videoDuration |-> None,
                 error |-> None, throws |-> None]
NoResp == PollResp("none", 0, None, None, None, None, None)
NoDownload == [kind |-> "none", status |-> 0, body |-> ""]
NoSubmit == SubmitResp("none", 0, None, None, None)
NoImage == [ok |-> FALSE, base64 |-> "", mimeType |-> "none"]

\* progress.updateBar of ../progressBar.ts throws on its sinkFailAt-th call;
\* b holds the percentages of the calls that returned
SinkThrows(b) == sinkFailAt = Len(b) + 1
SinkError == PlainError("progress sink failed")

\* what the claims call a terminal outcome of a status check: a task status
\* SUCCEEDED, FAILED or CANCELED, or a 4xx response
TerminalResponse(resp) ==
    /\ resp.kind = "http"
    /\ \/ resp.status >= 400 /\ resp.status <= 499
       \/ /\ ResponseOk(resp)
          /\ resp.task_status # None
          /\ taskStatus(resp) \in
                 {Some("SUCCEEDED"), Some("FAILED"), Some("CANCELED")}

Is5xx(resp) == resp.kind = "http" /\ resp.status >= 500 /\ resp.status <= 599

\* a non-terminal status check: a non-terminal task status or a 5xx response
NonTerminalResponse(resp) ==
    /\ resp.kind = "http"
    /\ ~TerminalResponse(resp)
    /\ (ResponseOk(resp) \/ Is5xx(resp))

-----------------------------------------------------------------------------
(* The job *)

\* what every job starts from, whatever the request and the sink
Start ==
    /\ pc = "start"
    /\ videoParams = None
    /\ requestBody = None
    /\ taskId = None
    /\ attempt = 0
    /\ pollResult = NoPollResult
    /\ videoUrl = None
    /\ bar = <<>>
    /\ adapter = None
    /\ outcome = NoOutcome
    /\ nImage = 0 /\ nSubmit = 0 /\ nPoll = 0 /\ nSleep = 0 /\ nDownload = 0
    /\ sleptMs = 0
    /\ fetchedImage = None
    /\ lastImage = NoImage
    /\ nSettled = 0
    /\ lastSubmit = NoSubmit
    /\ lastResp = NoResp
    /\ lastDownload = NoDownload
    /\ sawTerminal = FALSE
    /\ saw5xx = FALSE
    /\ onlyPending = TRUE

\* useHeaderVisibility before its component is rendered
HeaderIdle ==
    /\ scrollY = 0
    /\ threshold = 10
    /\ showHeader = TRUE
    /\ listener = None

\* pimpPrompt never called: new Map()
NoCall == [prompt |-> "", seed |-> 0, value |-> "", cached |-> FALSE,
           called |-> FALSE]
MemoIdle ==
    /\ cache = <<>>
    /\ createdBy = <<>>
    /\ pending = {}
    /\ lastCall = NoCall

\* detectLanguage not called
DetectIdle ==
    /\ detectRequest = [q |-> "", host |-> None]
    /\ dStep = "idle"
    /\ signalAborted = FALSE
    /\ timerFired = FALSE
    /\ detectPromise = None
    /\ raceResult = None
    /\ firstEvent = [by |-> "none",
                     value |-> [js |-> "undefined", str |-> ""]]

\* no content-safety analysis called; the client is not configured
NoSafetyResp == [kind |-> "none", status |-> "", hasBody |-> FALSE,
                 categoriesAnalysis |-> <<>>]
SafetyIdle ==
    /\ client = FALSE
    /\ safetyCall = [fn |-> "none", input |-> ""]
    /\ safetyPc = "idle"
    /\ safetyResp = NoSafetyResp
    /\ safetyOutcome = NoOutcome

\* the other modules of the repository, not in use
OthersIdle ==
    /\ HeaderIdle
    /\ MemoIdle
    /\ DetectIdle
    /\ SafetyIdle

\* a job whose progress sink never fails
Init ==
    /\ req \in Requests
    /\ apiKey \in ApiKeys
    /\ sinkFailAt = 0
    /\ Start
    /\ OthersIdle

\* no video job is running
JobIdle ==
    /\ req = Req("wan", None, None, None)
    /\ apiKey = None
    /\ sinkFailAt = 0
    /\ Start

\* the job throws err to the caller after reporting the percentages b
Throw(err, b) ==
    /\ outcome' = Raised(err)
    /\ bar' = b
    /\ pc' = "done"

\* buildDashScopeRequest (prepareImageUrl included), then createDashScopeTask
\* up to its fetch
BuildAndSubmit(imageUrl, vp, b) ==
    IF TruthyStr(imageUrl) /\ ~prepareImageUrlAccepts(imageUrl[1])
    THEN /\ Throw(HttpError("Invalid image URL: must be http/https or data URI",
                            400), b)
         /\ UNCHANGED <<requestBody, nSubmit>>
    ELSE /\ requestBody' = Some(buildDashScopeRequest(req.prompt, imageUrl, vp))
         /\ IF SinkThrows(b)
            THEN /\ Throw(SinkError, b)
                 /\ UNCHANGED nSubmit
            ELSE /\ bar' = Append(b, submitStartPercent)
                 /\ nSubmit' = nSubmit + 1
                 /\ pc' = "submit_wait"
                 /\ UNCHANGED outcome

\* CallWanAlibabaAPI checking the API key only after it reported 35
CallWanAlibabaAPIKeyCheckedLate(b) ==
    LET vp == prepareVideoParameters(req)
        rawImageUrl == extractFirstImage(req.image)
        b2 == Append(b, wanStartPercent)
    IN  /\ videoParams' = Some(vp)
        /\ IF ~TruthyStr(apiKey)
           THEN /\ Throw(HttpError("DASHSCOPE_API_KEY environment variable "
                                   \o "is required for Wan model", 500), b2)
                /\ UNCHANGED <<requestBody, nImage, fetchedImage, nSubmit>>
           ELSE IF TruthyStr(rawImageUrl)
           THEN /\ nImage' = nImage + 1
                /\ fetchedImage' = rawImageUrl
                /\ bar' = b2
                /\ pc' = "image_wait"
                /\ UNCHANGED <<requestBody, nSubmit, outcome>>
           ELSE /\ BuildAndSubmit(None, vp, b2)
                /\ UNCHANGED <<nImage, fetchedImage>>

\* callWanAlibabaAPI up to its first await
CallWanAlibabaAPI(b) ==
    IF ~TruthyStr(apiKey)
    THEN /\ Throw(HttpError("DASHSCOPE_API_KEY environment variable is required"
                            \o " for Wan model", 500), b)
         /\ UNCHANGED <<videoParams, requestBody, nImage, fetchedImage,
                        nSubmit>>
    ELSE LET vp == prepareVideoParameters(req)
             rawImageUrl == extractFirstImage(req.image)
             b2 == Append(b, wanStartPercent)
         IN  /\ videoParams' = Some(vp)
             /\ IF SinkThrows(b)
                THEN /\ Throw(SinkError, b)
                     /\ UNCHANGED <<requestBody, nImage, fetchedImage,
                                    nSubmit>>
                ELSE IF TruthyStr(rawImageUrl)
                THEN /\ nImage' = nImage + 1
                     /\ fetchedImage' = rawImageUrl
                     /\ bar' = b2
                     /\ pc' = "image_wait"
                     /\ UNCHANGED <<requestBody, nSubmit, outcome>>
                ELSE /\ BuildAndSubmit(None, vp, b2)
                     /\ UNCHANGED <<nImage, fetchedImage>>

\* createAndReturnVideo up to the first await of the adapter it calls
CreateAndReturnVideo ==
    /\ pc = "start"
    /\ UNCHANGED otherVars
    /\ IF SinkThrows(bar)
       THEN /\ Throw(SinkError, bar)
            /\ UNCHANGED <<adapter, videoParams, requestBody, nImage,
                           fetchedImage, nSubmit>>
       ELSE /\ adapter' = adapterFor(req.model)
            /\ LET b == Append(bar, startPercent)
               IN  CASE adapterFor(req.model) = None ->
                          /\ Throw(PlainError("Video generation not supported "
                                        \o "for model: " \o req.model), b)
                          /\ UNCHANGED <<videoParams, requestBody, nImage,
                                         fetchedImage, nSubmit>>
                     [] adapterFor(req.model) = Some("callWanAPI") ->
                          CallWanAlibabaAPI(b)
                     [] OTHER ->
                          /\ bar' = b
                          /\ pc' = "adapter_wait"
                          /\ UNCHANGED <<videoParams, requestBody, nImage,
                                         fetchedImage, nSubmit, outcome>>
    /\ UNCHANGED <<req, apiKey, sinkFailAt, lastImage, taskId, attempt,
                   pollResult, videoUrl, nPoll, nSleep, sleptMs, nDownload,
                   nSettled, lastSubmit, lastResp, lastDownload, sawTerminal,
                   saw5xx, onlyPending>>

\* an adapter other than callWanAPI settles: its result, or its error
AdapterSettles ==
    /\ pc = "adapter_wait"
    /\ UNCHANGED otherVars
    /\ \E ok \in BOOLEAN :
          outcome' =
              IF ok
              THEN Returned(
                     [buffer |-> "mp4-bytes", mimeType |-> "video/mp4",
                      durationSeconds |-> DEFAULT_DURATION_SECONDS,
                      actualModel |-> req.model,
                      completionVideoSeconds |-> DEFAULT_DURATION_SECONDS,
                      completionAudioSeconds |-> 0])
              ELSE Raised(HttpError("provider failed", 500))
    /\ pc' = "done"
    /\ UNCHANGED <<req, apiKey, sinkFailAt, fetchedImage, lastImage,
                   videoParams, requestBody, taskId, attempt, pollResult,
                   videoUrl, bar, adapter, nImage, nSubmit, nPoll, nSleep,
                   sleptMs, nDownload, nSettled, lastSubmit, lastResp,
                   lastDownload, sawTerminal, saw5xx, onlyPending>>

\* downloadImageAsBase64 settles; callWanAlibabaAPI runs on to the submission
ImageDownloaded ==
    /\ pc = "image_wait"
    /\ UNCHANGED otherVars
    /\ nSettled' = nSettled + 1
    /\ \E r \in ImageResults :
          /\ lastImage' = r
          /\ IF r.ok
             THEN BuildAndSubmit(Some(imageDataUri(r)), videoParams[1], bar)
             ELSE /\ Throw(PlainError("Failed to download image"), bar)
                  /\ UNCHANGED <<requestBody, nSubmit>>
    /\ UNCHANGED <<req, apiKey, sinkFailAt, fetchedImage, videoParams,
                   taskId, attempt, pollResult, videoUrl, adapter, nImage,
                   nPoll, nSleep, sleptMs, nDownload, lastSubmit, lastResp,
                   lastDownload, sawTerminal, saw5xx, onlyPending>>

\* the head of pollWanTask's loop for attempt n: either pollTaskOnce up to
\* its fetch, or the loop ends and pollWanTask throws the timeout
LoopHead(n, b) ==
    /\ attempt' = n
    /\ IF loopContinues(n)
       THEN IF SinkThrows(b)
            THEN /\ Throw(SinkError, b)
                 /\ UNCHANGED nPoll
            ELSE /\ bar' = Append(b, progressPercent(n))
                 /\ nPoll' = nPoll + 1
                 /\ pc' = "poll_wait"
                 /\ UNCHANGED outcome
       ELSE /\ Throw(pollTimeout, b)
            /\ UNCHANGED nPoll

\* the submission's fetch settles: createDashScopeTask returns or throws, and
\* pollWanTask starts
SubmitResponse ==
    /\ pc = "submit_wait"
    /\ UNCHANGED otherVars
    /\ nSettled' = nSettled + 1
    /\ \E resp \in SubmitResponses :
          LET r == createDashScopeTask(resp)
          IN  /\ lastSubmit' = resp
              /\ IF r.throws # None
                 THEN /\ Throw(r.throws[1], bar)
                      /\ UNCHANGED <<taskId, attempt, nPoll>>
                 ELSE IF SinkThrows(bar)
                 THEN /\ Throw(SinkError, bar)
                      /\ UNCHANGED <<taskId, attempt, nPoll>>
                 ELSE /\ taskId' = r.taskId
                      /\ LoopHead(1, Append(bar, submitDonePercent))
    /\ UNCHANGED <<req, apiKey, sinkFailAt, fetchedImage, lastImage,
                   videoParams, requestBody, pollResult, videoUrl, adapter,
                   nImage, nSubmit, nSleep, sleptMs, nDownload, lastResp,
                   lastDownload, sawTerminal, saw5xx, onlyPending>>

\* a status check's fetch settles: pollTaskOnce returns or throws and the
\* loop body acts on it
PollResponse ==
    /\ pc = "poll_wait"
    /\ UNCHANGED otherVars
    /\ nSettled' = nSettled + 1
    /\ \E resp \in PollResponses :
          LET pr == pollTaskOnce(resp)
          IN  /\ lastResp' = resp
              /\ pollResult' = pr
              /\ sawTerminal' = (sawTerminal \/ TerminalResponse(resp))
              /\ saw5xx' = (saw5xx \/ Is5xx(resp))
              /\ onlyPending' = (onlyPending /\ NonTerminalResponse(resp))
              /\ CASE loopDecision(pr) = "throw" ->
                        /\ Throw(pr.throws[1], bar)
                        /\ UNCHANGED <<videoUrl, nSleep, sleptMs, nDownload>>
                   [] loopDecision(pr) = "download" ->
                        /\ videoUrl' = pr.videoUrl
                        /\ IF SinkThrows(bar)
                           THEN /\ Throw(SinkError, bar)
                                /\ UNCHANGED <<nSleep, sleptMs, nDownload>>
                           ELSE /\ bar' = Append(bar, downloadStartPercent)
                                /\ nDownload' = nDownload + 1
                                /\ pc' = "download_wait"
                                /\ UNCHANGED <<outcome, nSleep, sleptMs>>
                   [] loopDecision(pr) = "fail" ->
                        /\ Throw(HttpError(pr.error[1], 500), bar)
                        /\ UNCHANGED <<videoUrl, nSleep, sleptMs, nDownload>>
                   [] OTHER ->
                        /\ nSleep' = nSleep + 1
                        /\ sleptMs' = sleptMs + POLL_DELAY_MS
                        /\ pc' = "sleep_wait"
                        /\ UNCHANGED <<videoUrl, bar, outcome, nDownload>>
    /\ UNCHANGED <<req, apiKey, sinkFailAt, fetchedImage, lastImage,
                   videoParams, requestBody, taskId, attempt, adapter,
                   nImage, nSubmit, nPoll, lastSubmit, lastDownload>>

\* sleep(POLL_DELAY_MS) settles: attempt++ and the loop's head
SleepDone ==
    /\ pc = "sleep_wait"
    /\ UNCHANGED otherVars
    /\ LoopHead(attempt + 1, bar)
    /\ UNCHANGED <<req, apiKey, sinkFailAt, fetchedImage, lastImage,
                   videoParams, requestBody, taskId, pollResult, videoUrl,
                   adapter, nImage, nSubmit, nSleep, sleptMs, nDownload,
                   nSettled, lastSubmit, lastResp, lastDownload, sawTerminal,
                   saw5xx, onlyPending>>

\* the download's fetch settles: downloadVideo returns or throws, and
\* callWanAlibabaAPI returns createVideoResult
DownloadResponse ==
    /\ pc = "download_wait"
    /\ UNCHANGED otherVars
    /\ nSettled' = nSettled + 1
    /\ \E resp \in DownloadResponses :
          LET d == downloadVideo(resp)
          IN  /\ lastDownload' = resp
              /\ IF d.throws # None
                 THEN Throw(d.throws[1], bar)
                 ELSE IF SinkThrows(bar)
                 THEN Throw(SinkError, bar)
                 ELSE /\ bar' = Append(bar, downloadDonePercent)
                      /\ outcome' =
                            Returned(createVideoResult(d.buffer[1],
                                videoParams[1], pollResult.videoDuration))
                      /\ pc' = "done"
    /\ UNCHANGED <<req, apiKey, sinkFailAt, fetchedImage, lastImage,
                   videoParams, requestBody, taskId, attempt, pollResult,
                   videoUrl, adapter, nImage, nSubmit, nPoll, nSleep,
                   sleptMs, nDownload, lastSubmit, lastResp, sawTerminal,
                   saw5xx, onlyPending>>

Next ==
    \/ CreateAndReturnVideo
    \/ AdapterSettles
    \/ ImageDownloaded
    \/ SubmitResponse
    \/ PollResponse
    \/ SleepDone
    \/ DownloadResponse

Spec == Init /\ [][Next]_vars

\* every call and every sleep of a job eventually settles
SpecFair == Spec /\ WF_vars(Next)

\* a job whose progress sink throws on one of its first MaxSinkFailAt calls
SinkRequests ==
    {Req("wan", None, None, None),
     Req("wan", None, None, ImageStr("https://img.example/a.png")),
     Req("veo", None, None, None)}

InitSink ==
    /\ req \in SinkRequests
    /\ apiKey = Some("sk-test")
    /\ sinkFailAt \in 0 .. MaxSinkFailAt
    /\ Start
    /\ OthersIdle

SpecSink == InitSink /\ [][Next]_vars

-----------------------------------------------------------------------------
(* memoize and pimpPrompt *)

Prompts == {"a", "a-"}
Seeds == (0 - MaxSeed) .. MaxSeed

\* async function pimpPromptRaw(prompt, seed)
pimpPromptRaw(prompt, seed) == prompt

\* `${prompt}-${seed}`
cacheKey(prompt, seed) == prompt \o "-" \o ToString(seed)

\* cache.has(key)
cacheHas(key) == \E i \in 1 .. Len(cache) : cache[i].key = key
\* cache.get(key), for a key the cache has
cacheGet(key) ==
    cache[CHOOSE i \in 1 .. Len(cache) : cache[i].key = key].value
\* cache.set(key, value) on the Map m, which keeps insertion order
cacheSet(m, key, value) ==
    IF \E i \in 1 .. Len(m) : m[i].key = key
    THEN [i \in 1 .. Len(m) |->
             IF m[i].key = key THEN [key |-> key, value |-> value] ELSE m[i]]
    ELSE Append(m, [key |-> key, value |-> value])

InitMemo ==
    /\ MemoIdle
    /\ HeaderIdle
    /\ DetectIdle
    /\ SafetyIdle
    /\ JobIdle

\* pimpPrompt(prompt, seed) up to its return from the cache or its await
PimpPrompt ==
    \E prompt \in Prompts, seed \in Seeds :
        /\ IF cacheHas(cacheKey(prompt, seed))
           THEN /\ lastCall' = [prompt |-> prompt, seed |-> seed,
                                value |-> cacheGet(cacheKey(prompt, seed)),
                                cached |-> TRUE, called |-> TRUE]
                /\ UNCHANGED pending
           ELSE /\ [prompt |-> prompt, seed |-> seed] \notin pending
                /\ Cardinality(pending) < MaxPending
                /\ pending' = pending \cup {[prompt |-> prompt, seed |-> seed]}
                /\ UNCHANGED lastCall
        /\ UNCHANGED <<cache, createdBy, headerVars, detectVars, safetyVars,
                       jobVars>>

\* fn(prompt, seed) settled: cache.set(cacheKey, result); return result
PimpPromptResumes ==
    \E c \in pending :
        LET result == pimpPromptRaw(c.prompt, c.seed)
            key == cacheKey(c.prompt, c.seed)
        IN  /\ cache' = cacheSet(cache, key, result)
            /\ createdBy' = cacheSet(createdBy, key, c)
            /\ pending' = pending \ {c}
            /\ lastCall' = [prompt |-> c.prompt, seed |-> c.seed,
                            value |-> result, cached |-> FALSE,
                            called |-> TRUE]
            /\ UNCHANGED <<headerVars, detectVars, safetyVars, jobVars>>

NextMemo ==
    \/ PimpPrompt
    \/ PimpPromptResumes

SpecMemo == InitMemo /\ [][NextMemo]_vars

-----------------------------------------------------------------------------
(* detectLanguage and fetchDetection (translateIfNecessary.ts) *)

\* the JavaScript values null and undefined, and a string
JsNull == [js |-> "null", str |-> ""]
JsUndefined == [js |-> "undefined", str |-> ""]
JsString(str) == [js |-> "string", str |-> str]

NoEvent == [by |-> "none", value |-> JsUndefined]

\* the prompts whose language is asked for, and the translation servers
\* getNextTranslationServerUrl hands out
DetectPrompts == {"a cat", "eine Katze", "un chat", "un gato"}
TranslationServers == {"http://translate-1:5000", "http://translate-2:5000"}

\* what result.json() can resolve with: an array of detections, possibly
\* empty, or null
DetectBodies ==
    {[isArray |-> TRUE, items |-> <<>>],
     [isArray |-> FALSE, items |-> <<>>]}
    \cup {[isArray |-> TRUE, items |-> <<[language |-> l]>>] :
              l \in {"de", "en", "fr", "zh"}}
    \cup {[isArray |-> TRUE,
           items |-> <<[language |-> "es"], [language |-> "pt"]>>]}

\* resultJson[0]?.language; throws (FALSE in .ok) when resultJson is null
firstLanguage(resultJson) ==
    IF ~resultJson.isArray THEN [ok |-> FALSE, value |-> JsUndefined]
    ELSE IF Len(resultJson.items) = 0 THEN [ok |-> TRUE, value |-> JsUndefined]
    ELSE [ok |-> TRUE, value |-> JsString(resultJson.items[1].language)]

\* the jobs of the microtask queue: the continuation of fetchDetection in
\* its catch block, and Promise.race's reaction to a promise settling with v
CatchJob == [job |-> "catch", value |-> JsString("en")]
RaceJob(v) == [job |-> "race", value |-> v]

\* Promise.race letting a later settlement replace an earlier one
raceSettleLastWins(race, v) == Some(v)

\* Promise.race: the first settlement wins, later ones are ignored
raceSettle(race, v) == IF race = None THEN Some(v) ELSE race

\* run the microtask queue q to its end, from detectPromise dp and the
\* race's value race
RECURSIVE runMicrotasks(_, _, _)
runMicrotasks(q, dp, race) ==
    IF q = <<>> THEN [detectPromise |-> dp, raceResult |-> race]
    ELSE IF q[1].job = "catch"
    THEN runMicrotasks(Tail(q) \o <<RaceJob(q[1].value)>>,
                       Some(q[1].value), race)
    ELSE runMicrotasks(Tail(q), dp, raceSettle(race, q[1].value))

\* a macrotask that queued the microtasks q has run
Settle(q) ==
    LET r == runMicrotasks(q, detectPromise, raceResult)
    IN  /\ detectPromise' = r.detectPromise
        /\ raceResult' = r.raceResult

\* detection finished with v, before or after the timer
DetectionFinished(v) ==
    firstEvent' = IF firstEvent.by = "none"
                  THEN [by |-> "detect", value |-> v] ELSE firstEvent

\* fetchDetection returns v: detectPromise is fulfilled with it
Return(v) ==
    /\ detectPromise' = Some(v)
    /\ raceResult' = runMicrotasks(<<RaceJob(v)>>, Some(v),
                                   raceResult).raceResult
    /\ DetectionFinished(v)
    /\ dStep' = "done"

\* fetchDetection's awaited call rejected: the catch block returns "en"
Catch ==
    /\ Settle(<<CatchJob>>)
    /\ DetectionFinished(JsString("en"))
    /\ dStep' = "done"

\* detectLanguage was called: fetchDetection is at its first await and the
\* timer is set
InitDetect ==
    /\ detectRequest \in {[q |-> q, host |-> None] : q \in DetectPrompts}
    /\ dStep = "host_wait"
    /\ signalAborted = FALSE
    /\ timerFired = FALSE
    /\ detectPromise = None
    /\ raceResult = None
    /\ firstEvent = NoEvent
    /\ HeaderIdle
    /\ MemoIdle
    /\ SafetyIdle
    /\ JobIdle

\* getNextTranslationServerUrl settles; fetch is called with the signal and
\* rejects at once when the signal is already aborted
HostSettles ==
    /\ dStep = "host_wait"
    /\ \/ \E host \in TranslationServers :
             /\ detectRequest' = [detectRequest EXCEPT !.host = Some(host)]
             /\ IF signalAborted
                THEN Catch
                ELSE /\ dStep' = "fetch_wait"
                     /\ UNCHANGED <<detectPromise, raceResult, firstEvent>>
       \/ /\ Catch
          /\ UNCHANGED detectRequest
    /\ UNCHANGED <<signalAborted, timerFired, headerVars, memoVars,
                   safetyVars, jobVars>>

\* the detection request settles: a response, or a network error
FetchSettles ==
    /\ dStep = "fetch_wait"
    /\ \E ok \in BOOLEAN :
          IF ok
          THEN /\ dStep' = "json_wait"
               /\ UNCHANGED <<detectPromise, raceResult, firstEvent>>
          ELSE Catch
    /\ UNCHANGED <<detectRequest, signalAborted, timerFired, headerVars,
                   memoVars, safetyVars, jobVars>>

\* result.json() settles: a document, or a parse error
JsonSettles ==
    /\ dStep = "json_wait"
    /\ \/ \E body \in DetectBodies :
             IF firstLanguage(body).ok
             THEN Return(firstLanguage(body).value)
             ELSE Catch
       \/ Catch
    /\ UNCHANGED <<detectRequest, signalAborted, timerFired, headerVars,
                   memoVars, safetyVars, jobVars>>

\* the 1000 ms timer fires: controller.abort() rejects the pending fetch or
\* body read, whose continuation is queued; then resolve(null)
TimerFires ==
    /\ ~timerFired
    /\ dStep # "idle"
    /\ timerFired' = TRUE
    /\ signalAborted' = TRUE
    /\ firstEvent' = IF firstEvent.by = "none"
                     THEN [by |-> "timer", value |-> JsNull] ELSE firstEvent
    /\ IF dStep \in {"fetch_wait", "json_wait"}
       THEN /\ Settle(<<CatchJob, RaceJob(JsNull)>>)
            /\ dStep' = "done"
       ELSE /\ Settle(<<RaceJob(JsNull)>>)
            /\ UNCHANGED dStep
    /\ UNCHANGED <<detectRequest, headerVars, memoVars, safetyVars, jobVars>>

NextDetect ==
    \/ HostSettles
    \/ FetchSettles
    \/ JsonSettles
    \/ TimerFires

SpecDetect == InitDetect /\ [][NextDetect]_vars

-----------------------------------------------------------------------------
(* Azure content safety: analyzeTextSafety and analyzeImageSafety *)

CATEGORIES == <<"Hate", "SelfHarm", "Sexual", "Violence">>
SEVERITY_THRESHOLD == 4

SAFE_RESULT ==
    [safe |-> TRUE, violations |-> <<>>,
     formattedViolations |-> "No violations detected"]

\* `${v.category} (severity: ${v.severity})` joined with ", "
RECURSIVE joinViolations(_)
joinViolations(violations) ==
    IF Len(violations) = 0 THEN ""
    ELSE violations[1].category \o " (severity: "
         \o ToString(violations[1].severity) \o ")"
         \o (IF Len(violations) = 1 THEN ""
             ELSE ", " \o joinViolations(Tail(violations)))

formatViolations(violations) ==
    IF Len(violations) = 0 THEN "No violations detected"
    ELSE joinViolations(violations)

\* analysis.severity ?? 0
severityOf(analysis) ==
    IF analysis.severity = None THEN 0 ELSE analysis.severity[1]

\* the violations the for loop of buildResultFromCategories pushes, for
\* the threshold t
RECURSIVE violationsOf(_, _)
violationsOf(categoriesAnalysis, t) ==
    IF Len(categoriesAnalysis) = 0 THEN <<>>
    ELSE (IF severityOf(categoriesAnalysis[1]) >= t
          THEN <<[category |-> categoriesAnalysis[1].category,
                  severity |-> severityOf(categoriesAnalysis[1])]>>
          ELSE <<>>)
         \o violationsOf(Tail(categoriesAnalysis), t)

\* buildResultFromCategories blocking low severity (2) as well
buildResultFromCategoriesLow(categoriesAnalysis) ==
    [safe |-> Len(violationsOf(categoriesAnalysis, 2)) = 0,
     violations |-> violationsOf(categoriesAnalysis, 2),
     formattedViolations |->
         formatViolations(violationsOf(categoriesAnalysis, 2))]

buildResultFromCategories(categoriesAnalysis) ==
    [safe |-> Len(violationsOf(categoriesAnalysis, SEVERITY_THRESHOLD)) = 0,
     violations |-> violationsOf(categoriesAnalysis, SEVERITY_THRESHOLD),
     formattedViolations |->
         formatViolations(violationsOf(categoriesAnalysis,
                                       SEVERITY_THRESHOLD))]

\* one entry of categoriesAnalysis
Analyses ==
    {[category |-> CATEGORIES[i], severity |-> sv] :
        i \in 1 .. Len(CATEGORIES),
        sv \in {None} \cup {Some(v) : v \in 0 .. MaxSeverity}}

\* the sequences of at most n entries
RECURSIVE AnalysesUpTo(_)
AnalysesUpTo(n) ==
    IF n = 0 THEN {<<>>}
    ELSE AnalysesUpTo(n - 1)
         \cup {Append(a, e) : a \in {b \in AnalysesUpTo(n - 1) :
                                         Len(b) = n - 1},
                              e \in Analyses}

\* what the awaited post can settle with: a rejection, an unexpected
\* response (a status other than "200"), or a "200" whose body has a
\* categoriesAnalysis array or lacks it
SafetyResp(kind, status, hasBody, categoriesAnalysis) ==
    [kind |-> kind, status |-> status, hasBody |-> hasBody,
     categoriesAnalysis |-> categoriesAnalysis]

SafetyResponses ==
    {SafetyResp("reject", "", FALSE, <<>>)}
    \cup {SafetyResp("http", st, FALSE, <<>>) : st \in {"400", "401", "500"}}
    \cup {SafetyResp("http", "200", FALSE, <<>>)}
    \cup {SafetyResp("http", "200", TRUE, a) : a \in AnalysesUpTo(MaxAnalyses)}

\* isUnexpected(result)
isUnexpected(result) == result.status # "200"

\* the body of the try block after the await, the catch block included
analyzeAfterPost(result) ==
    IF result.kind = "reject" THEN SAFE_RESULT
    ELSE IF isUnexpected(result) THEN SAFE_RESULT
    ELSE IF ~result.hasBody THEN SAFE_RESULT
    ELSE buildResultFromCategories(result.categoriesAnalysis)

\* the inputs: a text, or an image as a Buffer or as a base64 string
SafetyCalls ==
    {[fn |-> "analyzeTextSafety", input |-> "some text"],
     [fn |-> "analyzeImageSafety", input |-> "aW1hZ2U="],
     [fn |-> "analyzeImageSafety", input |-> "Buffer"]}

\* the module is loaded: the client exists when the endpoint and the key
\* are both configured
InitSafety ==
    /\ client \in BOOLEAN
    /\ safetyCall = [fn |-> "none", input |-> ""]
    /\ safetyPc = "idle"
    /\ safetyResp = NoSafetyResp
    /\ safetyOutcome = NoOutcome
    /\ HeaderIdle
    /\ MemoIdle
    /\ DetectIdle
    /\ JobIdle

\* analyzeTextSafety or analyzeImageSafety up to its return without a
\* client or its await
AnalyzeSafety ==
    /\ safetyPc \in {"idle", "done"}
    /\ \E c \in SafetyCalls :
          /\ safetyCall' = c
          /\ safetyResp' = NoSafetyResp
          /\ IF ~client
             THEN /\ safetyOutcome' = Returned(SAFE_RESULT)
                  /\ safetyPc' = "done"
             ELSE /\ safetyOutcome' = NoOutcome
                  /\ safetyPc' = "wait"
    /\ UNCHANGED <<client, headerVars, memoVars, detectVars, jobVars>>

\* the awaited post settles and the function returns
SafetyPostSettles ==
    /\ safetyPc = "wait"
    /\ \E result \in SafetyResponses :
          /\ safetyResp' = result
          /\ safetyOutcome' = Returned(analyzeAfterPost(result))
    /\ safetyPc' = "done"
    /\ UNCHANGED <<client, safetyCall, headerVars, memoVars, detectVars,
                   jobVars>>

NextSafety ==
    \/ AnalyzeSafety
    \/ SafetyPostSettles

SpecSafety == InitSafety /\ [][NextSafety]_vars

-----------------------------------------------------------------------------
(* useHeaderVisibility (pollinations.ai/src/hooks/useHeaderVisibility.ts) *)

\* the thresholds a component passes: the default and another one
Thresholds == {10, 20}

\* handleScroll with the threshold t of its closure
handleScroll(t, currentScrollY) == currentScrollY < t

\* the first render of the component: useState(true), wherever the window
\* is scrolled to; the effect has not run yet
InitHeader ==
    /\ scrollY \in 0 .. MaxScrollY
    /\ threshold \in Thresholds
    /\ showHeader = TRUE
    /\ listener = None
    /\ MemoIdle
    /\ DetectIdle
    /\ SafetyIdle
    /\ JobIdle

\* the effect runs after the first render: addEventListener
HeaderMounted ==
    /\ listener = None
    /\ listener' = Some(threshold)
    /\ UNCHANGED <<scrollY, threshold, showHeader, memoVars, detectVars,
                   safetyVars, jobVars>>

\* the window scrolls to y and the attached listener, if any, handles the
\* scroll event
Scroll ==
    \E y \in 0 .. MaxScrollY :
        /\ y # scrollY
        /\ scrollY' = y
        /\ showHeader' = IF listener = None THEN showHeader
                         ELSE handleScroll(listener[1], y)
        /\ UNCHANGED <<threshold, listener, memoVars, detectVars, safetyVars,
                       jobVars>>

\* a render with another threshold: the effect's cleanup removes the
\* listener and the effect adds one closing over the new threshold
ThresholdChanged ==
    /\ listener # None
    /\ \E t \in Thresholds \ {threshold} :
          /\ threshold' = t
          /\ listener' = Some(t)
    /\ UNCHANGED <<scrollY, showHeader, memoVars, detectVars, safetyVars,
                   jobVars>>

NextHeader ==
    \/ HeaderMounted
    \/ Scroll
    \/ ThresholdChanged

SpecHeader == InitHeader /\ [][NextHeader]_vars

-----------------------------------------------------------------------------
(* The claims *)

IsWanJob == adapter = Some("callWanAPI")
ErrorStatus == IF outcome.kind = "error" THEN outcome.error[1].status ELSE None
ErrorMessage == IF outcome.kind = "error" THEN outcome.error[1].message ELSE ""

DownloadOk == lastDownload.kind = "http" /\ lastDownload.status = 200

Is4xx(resp) == resp.kind = "http" /\ resp.status >= 400 /\ resp.status <= 499

StatusIs(resp, names) ==
    /\ resp.kind = "http" /\ ResponseOk(resp) /\ resp.task_status # None
    /\ resp.task_status[1] \in names

\* the job stopped on the attempt whose response is lastResp: no sleep and
\* no status check followed it, and no download was started
StoppedOnThisAttempt ==
    /\ pc = "done"
    /\ nPoll = attempt
    /\ nSleep = attempt - 1
    /\ nDownload = 0

\* C1: against a provider whose every status check is non-terminal (a
\* non-terminal task status or a 5xx response) pollWanTask issues exactly
\* POLL_MAX_ATTEMPTS = 60 status checks, never a 61st, and the job then ends
\* with an error of status 504.
C1_TimeoutAfterMaxAttempts ==
    /\ nPoll <= 60
    /\ (pc = "done" /\ nPoll > 0 /\ onlyPending) =>
          /\ nPoll = 60
          /\ outcome.kind = "error"
          /\ ErrorStatus = Some(504)

C1_Witness ==
    /\ pc = "done" /\ onlyPending /\ saw5xx /\ nPoll = 60
    /\ ErrorStatus = Some(504)

\* C2: once a status check has produced a terminal outcome (task status
\* SUCCEEDED, FAILED or CANCELED, or a 4xx response), no later status check
\* is issued for the task.
C2_NoPollAfterTerminal == [][sawTerminal => nPoll' = nPoll]_vars

C2_Witness ==
    /\ sawTerminal /\ pc = "done" /\ nPoll > 1 /\ nPoll < 60

\* C3: a poll attempt whose response status is in 400..499 ends the job as
\* failed on that same attempt, whatever the attempt number: no sleep and no
\* further status check follow, and the caller receives an error, no result.
C3_ClientErrorFailsAtOnce ==
    Is4xx(lastResp) =>
        /\ StoppedOnThisAttempt
        /\ outcome.kind = "error"
        /\ outcome.result = None
        /\ ErrorStatus = Some(500)

C3_Witness ==
    /\ Is4xx(lastResp) /\ lastResp.status = 400 /\ pc = "done"
    /\ attempt = 60 /\ outcome.kind = "error"

\* C4: a 5xx poll response is treated as pending and consumes exactly one
\* attempt: the job is not failed by it, a later SUCCEEDED with a video URL
\* still leads to the download and the result, and a job whose last status
\* check was a 5xx fails only with the 504 timeout after all 60 attempts.
C4_ServerErrorIsPending ==
    /\ Is5xx(lastResp) =>
          /\ pollResult.status = "pending"
          /\ \/ pc = "sleep_wait" /\ nPoll = attempt /\ nSleep = attempt
             \/ pc = "poll_wait" /\ nPoll = attempt /\ nSleep = attempt - 1
             \/ /\ pc = "done" /\ ErrorStatus = Some(504)
                /\ nPoll = 60 /\ nSleep = 60
    /\ (saw5xx /\ StatusIs(lastResp, {"SUCCEEDED", "succeeded"})
               /\ lastResp.video_url \notin {None, Some("")}) =>
          /\ nDownload = 1
          /\ \/ pc = "download_wait"
             \/ pc = "done" /\ outcome.kind = "result"
                            /\ DownloadOk
             \/ pc = "done" /\ outcome.kind = "error" /\ ~DownloadOk

C4_Witness ==
    /\ saw5xx /\ pc = "done" /\ outcome.kind = "result" /\ nPoll > 1

\* C5: a poll attempt whose status request rejects (a network exception)
\* keeps the job pending and consumes one attempt: the loop goes on with the
\* next attempt and the job is not failed by it.
C5_NetworkExceptionIsPending ==
    lastResp.kind = "reject" =>
        \/ pc \in {"sleep_wait", "poll_wait"}
        \/ pc = "done" /\ ErrorStatus = Some(504)

\* C6: every numeric requested duration d, 0 and negative values included,
\* is submitted clamped into [2, 15]: d < 2 as 2, d > 15 as 15, and d in
\* 2..15 unchanged; no duration makes the job fail before submission.
C6_DurationClamped ==
    (IsWanJob /\ req.duration # None /\ req.image = None /\ TruthyStr(apiKey)
        /\ pc # "start") =>
        /\ requestBody # None
        /\ requestBody[1].duration =
               (IF req.duration[1] < 2 THEN 2
                ELSE IF req.duration[1] > 15 THEN 15 ELSE req.duration[1])

\* C7: the durationSeconds of a successful Wan job's result is the
\* provider-reported duration (usage.video_duration) when the provider
\* reports one, and the requested (clamped) duration otherwise.
C7_ResultDurationIsActual ==
    (IsWanJob /\ outcome.kind = "result") =>
        outcome.result[1].durationSeconds =
            (IF lastResp.video_duration \notin {None, Some(0)}
             THEN lastResp.video_duration[1]
             ELSE requestBody[1].duration)

\* C8: a status check that reports SUCCEEDED without a video URL makes the
\* job fail with a status-500 error: no download is attempted, no result is
\* returned and no further status check is issued.
C8_SucceededWithoutUrlFails ==
    (StatusIs(lastResp, {"SUCCEEDED", "succeeded"})
        /\ lastResp.video_url \in {None, Some("")}) =>
        /\ StoppedOnThisAttempt
        /\ outcome.kind = "error"
        /\ outcome.result = None
        /\ ErrorStatus = Some(500)

C8_Witness ==
    /\ StatusIs(lastResp, {"SUCCEEDED"}) /\ lastResp.video_url = None
    /\ pc = "done" /\ outcome.kind = "error" /\ nPoll > 1

\* C9: when a status check reports FAILED or CANCELED the caller receives a
\* status-500 error with no further poll and no download; for FAILED the
\* message is output.message, else the top-level message, else a fixed
\* default, so "unsafe content" from the provider appears in the error.
C9_FailedOrCanceledFails ==
    /\ StatusIs(lastResp, {"FAILED", "Failed", "CANCELED"}) =>
          /\ StoppedOnThisAttempt
          /\ outcome.kind = "error"
          /\ ErrorStatus = Some(500)
    /\ StatusIs(lastResp, {"FAILED", "Failed"}) =>
          ErrorMessage =
              (IF lastResp.output_message \notin {None, Some("")}
               THEN lastResp.output_message[1]
               ELSE IF lastResp.message \notin {None, Some("")}
               THEN lastResp.message[1]
               ELSE "Video generation failed")

C9_Witness ==
    /\ StatusIs(lastResp, {"FAILED"})
    /\ lastResp.output_message = Some("unsafe content")
    /\ lastResp.message # None
    /\ pc = "done" /\ ErrorMessage = "unsafe content" /\ ErrorStatus = Some(500)

\* C10: within one job the percentages passed to progress.updateBar (20,
\* 35, 45, 50, the per-attempt polling values, 90, 95) are non-decreasing,
\* whatever the number of attempts and whichever way the job ends.
C10_ProgressNonDecreasing ==
    \A i \in 1 .. (Len(bar) - 1) : bar[i] <= bar[i + 1]

C10_Witness ==
    /\ pc = "done" /\ outcome.kind = "result" /\ nPoll = 60
    /\ bar[1] = 20 /\ bar[Len(bar)] = 95

\* C11: the "complete" progress value 95, the highest the Wan adapter
\* emits, is reported only after the artifact download returned a successful
\* response; a job that ends in an error never reports it.
C11_CompleteOnlyAfterDownload ==
    /\ \A i \in 1 .. Len(bar) : bar[i] <= 95
    /\ (\E i \in 1 .. Len(bar) : bar[i] = 95) =>
          /\ lastDownload.kind = "http"
          /\ lastDownload.status >= 200 /\ lastDownload.status <= 299
          /\ pc = "done"
          /\ outcome.kind = "result"

C11_Witness ==
    /\ Len(bar) > 0 /\ bar[Len(bar)] = 95
    /\ outcome.kind = "result" /\ nPoll > 1

\* C12: every failure a Wan job surfaces is an error whose status code is
\* 400, 500 or 504; in particular for a submission that the provider
\* answers with any non-success HTTP status.
C12_ErrorStatusIs400Or500Or504 ==
    (IsWanJob /\ outcome.kind = "error") =>
        ErrorStatus \in {Some(400), Some(500), Some(504)}

\* C13: an error raised by the progress sink (progress.updateBar throwing at
\* any of its call points) never changes the job's outcome: the job never
\* ends with the sink's error.
C13_SinkErrorNeverFailsJob ==
    sinkFailAt # 0 =>
        ~(outcome.kind = "error" /\ ErrorMessage = "progress sink failed")

\* C14: every Wan job that has ended has exactly one of a complete result
\* (bytes, MIME type, duration, usage) or a single error carrying a status
\* code and a message; never both and never neither.
C14_ResultOrTypedError ==
    (IsWanJob /\ pc = "done") =>
        \/ /\ outcome.kind = "result" /\ outcome.error = None
           /\ outcome.result # None
           /\ outcome.result[1].buffer # ""
           /\ outcome.result[1].mimeType # ""
        \/ /\ outcome.kind = "error" /\ outcome.result = None
           /\ outcome.error # None
           /\ outcome.error[1].status # None
           /\ outcome.error[1].message # ""

\* the termination half of C14: under SpecFair every job ends, the caller
\* has an outcome exactly when the job has ended, and never a result and an
\* error together
JobTerminates == <>(pc = "done")
OutcomeIffDone ==
    /\ (pc = "done") <=> (outcome.kind # "none")
    /\ ~(outcome.result # None /\ outcome.error # None)

\* C15: a request whose source image URI is neither a data: URI nor an
\* http:// or https:// URL is rejected with a status-400 error before any
\* network call of the job (no image retrieval, no submission POST).
C15_BadImageUriRejectedBeforeNetwork ==
    (IsWanJob /\ TruthyStr(apiKey) /\ TruthyStr(extractFirstImage(req.image))
        /\ ~StartsWith(extractFirstImage(req.image)[1], "data:")
        /\ ~StartsWith(extractFirstImage(req.image)[1], "http://")
        /\ ~StartsWith(extractFirstImage(req.image)[1], "https://")) =>
        /\ pc = "done"
        /\ ErrorStatus = Some(400)
        /\ nImage = 0 /\ nSubmit = 0 /\ nPoll = 0 /\ nDownload = 0

\* C16: within one job at most one network call is outstanding, and the
\* calls come in the order: at most one submission POST, then status checks
\* one after another, then at most one download; no status check precedes
\* the submission's response, no download precedes a SUCCEEDED status check,
\* and a failed submission is followed by no status check.
C16_OneCallAtATimeInOrder ==
    /\ nImage + nSubmit + nPoll + nDownload - nSettled \in {0, 1}
    /\ nSubmit <= 1 /\ nDownload <= 1
    /\ nPoll > 0 =>
          /\ nSubmit = 1
          /\ nSettled >= nImage + nSubmit
          /\ lastSubmit.kind = "http"
          /\ lastSubmit.status >= 200 /\ lastSubmit.status <= 299
          /\ lastSubmit.code \in {None, Some("")}
          /\ lastSubmit.task_id \notin {None, Some("")}
    /\ nDownload > 0 =>
          /\ nPoll > 0
          /\ nSettled >= nImage + nSubmit + nPoll
          /\ StatusIs(lastResp, {"SUCCEEDED", "succeeded"})
          /\ nPoll = attempt /\ nSleep = attempt - 1

C16_Witness ==
    /\ pc = "done" /\ outcome.kind = "result" /\ nImage = 1 /\ nSubmit = 1
    /\ nPoll > 1 /\ nDownload = 1 /\ nSettled = nPoll + 3

\* C18: when the download returns a non-success response after the task
\* reported SUCCEEDED, the job fails with a status-500 error: the download
\* was attempted exactly once, is not retried, and no status check follows.
C18_DownloadFailureIsFinal ==
    (lastDownload.kind = "http"
        /\ ~(lastDownload.status >= 200 /\ lastDownload.status <= 299)) =>
        /\ pc = "done"
        /\ outcome.kind = "error"
        /\ ErrorStatus = Some(500)
        /\ nDownload = 1
        /\ nPoll = attempt /\ nSleep = attempt - 1

C18_Witness ==
    /\ lastDownload.kind = "http" /\ lastDownload.status = 404
    /\ pc = "done" /\ nDownload = 1 /\ nPoll > 1

\* C19: in the usage record of a result, video seconds is the
\* provider-reported duration when the provider reports one and the
\* requested (clamped) duration the job submitted otherwise; audio seconds
\* equals video seconds when the audio flag is true and is 0 when it is false.
C19_UsageRecord ==
    (IsWanJob /\ outcome.kind = "result") =>
        LET r == outcome.result[1]
            v == IF lastResp.video_duration \notin {None, Some(0)}
                 THEN lastResp.video_duration[1]
                 ELSE requestBody[1].duration
        IN  /\ r.completionVideoSeconds = v
            /\ req.audio = Some(TRUE) => r.completionAudioSeconds = v
            /\ req.audio = Some(FALSE) => r.completionAudioSeconds = 0

C19_Witness ==
    /\ IsWanJob /\ outcome.kind = "result" /\ req.audio = Some(TRUE)
    /\ lastResp.video_duration \notin {None, Some(0)}
    /\ outcome.result[1].completionAudioSeconds # requestBody[1].duration

\* C20: the percentage reported at poll attempt n is
\* 50 + min(40, floor(0.7 * n)); for n in 1..60 it lies in [50, 90], does
\* not decrease with n, is never below the 50 reported when the submission
\* completed and never above the 90 reported when the download starts.
C20_PollPercentage ==
    pc = "poll_wait" =>
        LET p == bar[Len(bar)]
        IN  /\ attempt \in 1 .. 60
            /\ p >= 50 /\ p <= 90
            /\ IF 7 * attempt >= 400 THEN p = 90
               ELSE /\ 10 * (p - 50) <= 7 * attempt
                    /\ 7 * attempt < 10 * (p - 50) + 10
            /\ p >= bar[Len(bar) - 1]

C20_Witness ==
    /\ pc = "poll_wait" /\ attempt = 60 /\ bar[Len(bar)] = 90
    /\ bar[Len(bar) - 1] = 90

\* C21: when a request carries a source image, the image is retrieved and
\* re-encoded as a data: URI before the submission POST is issued; only the
\* first image of a list is used; the I2V model is selected exactly when a
\* first image exists; if the retrieval fails there is no submission POST
\* and no status check.
C21_ImageBeforeSubmission ==
    IsWanJob =>
        LET first == IF req.image = None THEN ""
                     ELSE IF Len(req.image[1].items) = 0 THEN ""
                     ELSE req.image[1].items[1]
        IN  /\ nImage <= 1
            /\ nImage = 1 => (first # "" /\ fetchedImage = Some(first))
            /\ nSubmit > 0 =>
                  IF first # ""
                  THEN /\ nImage = 1 /\ nSettled >= 1 /\ lastImage.ok
                       /\ requestBody[1].img_url =
                             Some("data:" \o lastImage.mimeType
                                  \o ";base64," \o lastImage.base64)
                       /\ requestBody[1].model = "wan2.6-i2v-flash"
                  ELSE /\ nImage = 0
                       /\ requestBody[1].img_url = None
                       /\ requestBody[1].model = "wan2.6-t2v"
            /\ (nImage = 1 /\ nSettled >= 1 /\ ~lastImage.ok) =>
                  /\ nSubmit = 0 /\ nPoll = 0
                  /\ pc = "done" /\ outcome.kind = "error"

C21_Witness ==
    /\ IsWanJob /\ req.image # None /\ Len(req.image[1].items) = 2
    /\ nImage = 1 /\ nSubmit = 1 /\ nPoll > 0
    /\ requestBody[1].model = "wan2.6-i2v-flash"

\* C22: a successful (2xx) status response is terminal only when its task
\* status, compared case-insensitively, is SUCCEEDED, FAILED or CANCELED;
\* every other status value, and a response with no task status at all
\* (a 2xx body carrying only an error message included), is Pending and
\* consumes one attempt, so it ends the job only through the 504 timeout.
C22_OtherStatusIsPending ==
    LET terminal == {"SUCCEEDED", "succeeded", "Succeeded", "FAILED",
                     "failed", "Failed", "CANCELED", "canceled", "Canceled"}
        twoXX == /\ lastResp.kind = "http"
                 /\ lastResp.status >= 200 /\ lastResp.status <= 299
    IN  /\ (twoXX /\ (lastResp.task_status = None
                        \/ lastResp.task_status[1] \notin terminal)) =>
              /\ pollResult.status = "pending"
              /\ pc \in {"sleep_wait", "poll_wait", "done"}
              /\ pc = "sleep_wait" => (nPoll = attempt /\ nSleep = attempt)
              /\ pc = "poll_wait" => (nPoll = attempt /\ nSleep = attempt - 1)
              /\ pc = "done" =>
                    /\ outcome.kind = "error"
                    /\ ErrorStatus = Some(504)
                    /\ nPoll = 60 /\ nSleep = 60
        /\ (twoXX /\ lastResp.task_status # None
                  /\ lastResp.task_status[1] \in terminal) =>
              /\ pollResult.status # "pending"
              /\ pc \in {"download_wait", "done"}

C22_Witness ==
    /\ lastResp.kind = "http" /\ lastResp.status = 200
    /\ lastResp.task_status = None /\ lastResp.message = Some("Throttling")
    /\ pc = "done" /\ ErrorStatus = Some(504) /\ nPoll = 60

\* C23: pollWanTask sleeps the fixed POLL_DELAY_MS (5000 ms) exactly once
\* after every non-terminal attempt, never before the first status check
\* and never after a terminal outcome; on the timeout path that includes a
\* sleep after the 60th attempt, so the 504 error is raised after 60 sleeps.
C23_SleepAfterEveryPendingAttempt ==
    /\ sleptMs = 5000 * nSleep
    /\ nPoll = 0 => nSleep = 0
    /\ pc = "poll_wait" => nSleep = nPoll - 1
    /\ pc = "sleep_wait" => (nSleep = nPoll /\ pollResult.status = "pending")
    /\ pc = "download_wait" => nSleep = nPoll - 1
    /\ (pc = "done" /\ nPoll > 0) =>
          IF ErrorStatus = Some(504)
          THEN nPoll = 60 /\ nSleep = 60 /\ sleptMs = 300000
          ELSE nSleep = nPoll - 1

C23_Witness ==
    /\ pc = "done" /\ ErrorStatus = Some(504)
    /\ nPoll = 60 /\ nSleep = 60 /\ sleptMs = 300000

\* C24: when the DashScope API key is not configured, a Wan job fails with
\* a status-500 error before any network call (no image retrieval, no
\* submission POST, no status check) and before the adapter reports any
\* progress event of its own (only createAndReturnVideo's 20 was reported).
C24_MissingApiKeyFailsFirst ==
    (IsWanJob /\ apiKey \in {None, Some("")}) =>
        /\ pc = "done"
        /\ outcome.kind = "error"
        /\ ErrorStatus = Some(500)
        /\ nImage = 0 /\ nSubmit = 0 /\ nPoll = 0 /\ nDownload = 0
        /\ nSettled = 0 /\ nSleep = 0
        /\ bar = <<20>>

C24_Witness ==
    /\ IsWanJob /\ apiKey = None /\ req.image # None
    /\ pc = "done" /\ ErrorStatus = Some(500) /\ bar = <<20>>

\* C25: createAndReturnVideo reports progress 20 and then calls exactly one
\* provider adapter, the one selected by the request's model identifier;
\* for a model identifier outside {veo, seedance, seedance-pro, wan, ltx-2,
\* grok-video} it calls no adapter and fails with an error that carries no
\* HTTP status code.
C25_OneAdapterByModel ==
    pc # "start" =>
        /\ Len(bar) >= 1 /\ bar[1] = 20
        /\ req.model = "veo" => adapter = Some("callVeoAPI")
        /\ req.model = "seedance" => adapter = Some("callSeedanceAPI")
        /\ req.model = "seedance-pro" => adapter = Some("callSeedanceProAPI")
        /\ req.model = "wan" => adapter = Some("callWanAPI")
        /\ req.model = "ltx-2" => adapter = Some("callLtx2API")
        /\ req.model = "grok-video" => adapter = Some("callAirforceVideoAPI")
        /\ req.model \notin {"veo", "seedance", "seedance-pro", "wan",
                             "ltx-2", "grok-video"} =>
              /\ adapter = None
              /\ pc = "done"
              /\ outcome.kind = "error"
              /\ outcome.error[1].status = None
              /\ bar = <<20>>
              /\ nImage = 0 /\ nSubmit = 0 /\ nPoll = 0 /\ nDownload = 0

C25_Witness ==
    /\ req.model = "flux" /\ pc = "done" /\ adapter = None
    /\ outcome.kind = "error" /\ outcome.error[1].status = None

\* C28: at every moment after useHeaderVisibility is mounted, showHeader is
\* true exactly when scrollY < threshold, including before the first scroll
\* event and after any sequence of scroll events.
C28_HeaderShownOnlyAtTop ==
    listener # None => (showHeader <=> scrollY < threshold)

\* C26: after any sequence of pimpPrompt calls, pimpPrompt(prompt, seed)
\* resolves to the value the wrapped function returns for that same
\* (prompt, seed), which is the original prompt unchanged; a cached entry is
\* never served to a call whose (prompt, seed) pair differs from the pair
\* that created it.
C26_MemoizedValueIsOwnPrompt ==
    lastCall.called =>
        /\ lastCall.value = lastCall.prompt
        /\ lastCall.cached =>
              \E i \in 1 .. Len(createdBy) :
                  /\ createdBy[i].key
                        = lastCall.prompt \o "-" \o ToString(lastCall.seed)
                  /\ createdBy[i].value.prompt = lastCall.prompt
                  /\ createdBy[i].value.seed = lastCall.seed

\* C27: detectLanguage resolves with the outcome of whichever happens
\* first: the detection request finishing (its detected language, or "en"
\* when the request errors) or the timer firing (null, after aborting the
\* request); once the timer has fired first the result is null and the
\* "en" of the aborted request's error handler never replaces it, and a
\* timer firing after detection finished does not change the result.
C27_FirstOutcomeWins ==
    /\ firstEvent.by = "none" => raceResult = <<>>
    /\ firstEvent.by = "timer" =>
          /\ raceResult = <<[js |-> "null", str |-> ""]>>
          /\ signalAborted
    /\ firstEvent.by = "detect" =>
          /\ raceResult = <<firstEvent.value>>
          /\ detectPromise = <<firstEvent.value>>
    /\ (timerFired /\ dStep = "done") =>
          (firstEvent.by = "timer" =>
              detectPromise = <<[js |-> "string", str |-> "en"]>>)

C27_Witness ==
    /\ firstEvent.by = "timer"
    /\ detectPromise = <<[js |-> "string", str |-> "en"]>>
    /\ raceResult = <<[js |-> "null", str |-> ""]>>

\* C29: analyzeTextSafety and analyzeImageSafety fail open: whenever the
\* content-safety client is not configured, the service answers with an
\* unexpected response, or the call throws, they return the safe result
\* (safe = true, no violations) and never raise an error; content is
\* reported unsafe only when a successful analysis contains a category with
\* severity >= 4.
C29_ContentSafetyFailsOpen ==
    safetyPc = "done" =>
        /\ safetyOutcome.kind = "result"
        /\ (~client \/ safetyResp.kind = "reject"
              \/ (safetyResp.kind = "http" /\ safetyResp.status # "200")) =>
              /\ safetyOutcome.result[1].safe = TRUE
              /\ safetyOutcome.result[1].violations = <<>>
              /\ safetyOutcome.result[1].formattedViolations
                    = "No violations detected"
        /\ safetyOutcome.result[1].safe = FALSE =>
              /\ client
              /\ safetyResp.kind = "http" /\ safetyResp.status = "200"
              /\ \E i \in 1 .. Len(safetyResp.categoriesAnalysis) :
                    /\ safetyResp.categoriesAnalysis[i].severity # <<>>
                    /\ safetyResp.categoriesAnalysis[i].severity[1] >= 4

C29_Witness ==
    /\ safetyPc = "done" /\ client
    /\ safetyCall.fn = "analyzeImageSafety"
    /\ safetyOutcome.kind = "result"
    /\ safetyOutcome.result[1].safe = FALSE
    /\ Len(safetyOutcome.result[1].violations) = 1
    /\ Len(safetyResp.categoriesAnalysis) = 2

====
